---- MODULE Spec2Model ----
(***************************************************************************)
(* Statement-of-Work Scouter: the query builder, the repository search     *)
(* with de-duplication, the coverage scoring fan-out of the search route,  *)
(* and the repository detail route.                                        *)
(*                                                                         *)
(* Strings are TLA+ strings; a character is a string of length 1.          *)
(* Time is counted in hours (the source counts milliseconds).              *)
(***************************************************************************)
EXTENDS Integers, Sequences, FiniteSets, TLC

VARIABLES
    \* ---- buildSearchQueries, called twice on one profile ----
    qAnalysis,      \* the RequirementProfile both calls receive
    qAnswersA,      \* questionAnswers of call A
    qContextA,      \* additionalContext of call A
    qAnswersB,      \* questionAnswers of call B
    qContextB,      \* additionalContext of call B
    qDoneA,         \* call A has returned
    qDoneB,         \* call B has returned
    qOutA,          \* the query list call A returned
    qOutB,          \* the query list call B returned
    \* ---- the search route: POST, searchGitHub, analyzeCoverage ----
    sPc,            \* "idle", "searching", "scoring", "returned" or "done"
    sHasAnalysis,   \* the request body carries an analysis
    sAnalysis,      \* the RequirementProfile of the request
    searchQueries,  \* the queries buildSearchQueries returned
    qi,             \* searchGitHub: index of the query whose search is in flight
    searchLog,      \* searchGitHub: the outcome of every search issued so far
    allRepos,       \* searchGitHub: the merged candidates (repository ids)
    seenRepoIds,    \* searchGitHub: the ids already merged
    pending,        \* indices of the analyzeCoverage calls still in flight
    modelOut,       \* index -> what the model call of that index did
    coverage,       \* index -> the coverage analyzeCoverage returned
    firstSettled,   \* the index of the call that ended first, 0 before
    sResponse,      \* the response of the search request
    \* ---- the repository detail route: POST, fetchReadme, ----
    \* ---- generateDetailedAnalysis                        ----
    dPc,            \* "idle", "fetching", "analyzing" or "done"
    dHasOwner,      \* the request body carries owner and name
    dHasAnalysis,   \* the request body carries an analysis
    dFetch,         \* fetch -> "none", "pending", "ok" or "failed"
    repoData,       \* what octokit.repos.get returned
    contributorsData, \* how many contributors listContributors returned
    readmeData,     \* what fetchReadme returned
    readmeFailed,   \* octokit.repos.getReadme threw
    readmeContent,  \* the decoded README octokit.repos.getReadme returned
    detailOut,      \* what the model call of generateDetailedAnalysis did
    daysSinceUpdate, \* the whole days POST computed
    healthStatus,   \* the health POST computed
    readmeUsed,     \* the readme generateDetailedAnalysis was called with
    dResponse,      \* the response of the detail request
    \* ---- the store and the AnalysisStep component ----
    uCurrentStep,   \* store: currentStep
    uSowContent,    \* store: sowContent, "" for null
    uAnalysis,      \* store: analysis, "" for null
    uIsAnalyzing,   \* store: isAnalyzing
    uIsSearching,   \* store: isSearching
    uSearchResults, \* store: searchResults, "" for the empty list
    uError,         \* store: error, "" for null
    uLocalError,    \* component: localError, "" for null
    uHasAttemptedAnalysis, \* component: hasAttemptedAnalysis
    uSearchesInFlight, \* the SOWs whose /api/search request is in flight
    uRequests,      \* the /api/analyze requests started so far
    uFailed,        \* an analysis request of the submitted SOW has failed
    \* ---- cleanText ----
    cText,          \* the text cleanText is called with
    cDone,          \* cleanText has returned
    cClean,         \* the text cleanText returned
    \* ---- the results list and the detail view ----
    vCurrentStep,   \* store: currentStep
    vSearchResults, \* store: searchResults, the names of the repositories
    vSelectedRepo,  \* store: selectedRepo, NoSelected for null
    vIsLoadingDetail, \* store: isLoadingDetail
    vError,         \* RepoDetail: error, "" for null
    vEffectDue,     \* RepoDetail has rendered with a new selectedRepo
    vMount,         \* the number of times RepoDetail has been mounted
    vSelections,    \* the number of clicks on a repository
    vDetailInFlight, \* the /api/repo-detail requests in flight
    vDetailRequests \* the /api/repo-detail requests started so far

queryVars == <<qAnalysis, qAnswersA, qContextA, qAnswersB, qContextB,
               qDoneA, qDoneB, qOutA, qOutB>>

searchVars == <<sPc, sHasAnalysis, sAnalysis, searchQueries, qi, searchLog,
                allRepos, seenRepoIds, pending, modelOut, coverage,
                firstSettled, sResponse>>

detailVars == <<dPc, dHasOwner, dHasAnalysis, dFetch, repoData,
                contributorsData, readmeData, readmeFailed, readmeContent,
                detailOut, daysSinceUpdate, healthStatus, readmeUsed,
                dResponse>>

uiVars == <<uCurrentStep, uSowContent, uAnalysis, uIsAnalyzing, uIsSearching,
            uSearchResults, uError, uLocalError, uHasAttemptedAnalysis,
            uSearchesInFlight, uRequests, uFailed>>

cleanVars == <<cText, cDone, cClean>>

viewVars == <<vCurrentStep, vSearchResults, vSelectedRepo, vIsLoadingDetail,
              vError, vEffectDue, vMount, vSelections, vDetailInFlight,
              vDetailRequests>>

vars == <<queryVars, searchVars, detailVars, uiVars, cleanVars, viewVars>>

-----------------------------------------------------------------------------
(* Bounds of the model *)

MaxDeliverables == 2

MaxRepo == 3

MaxItems == 2

\* the pieces of a text
MaxPieces == 6

\* the candidates searchGitHub returns to the scoring
MaxCandidates == 12

\* the /api/analyze requests of a run
MaxRequests == 4

\* the /api/search requests in flight at once
MaxInFlight == 2

\* the clicks on a repository of a run
MaxSelections == 3

\* the /api/repo-detail requests of a run
MaxFetches == 4

-----------------------------------------------------------------------------
(* Constants of the program *)

\* repos.slice(0, 10): the candidates that are analyzed
MaxAnalyzed == 10

\* relevantRepos.slice(0, 10): the results that are returned
MaxResults == 10

\* content.slice(0, 3000): the characters of the README that are kept
ReadmeLimit == 3000

\* 1000 * 60 * 60 * 24 milliseconds, in hours
HoursPerDay == 24

-----------------------------------------------------------------------------
(* JavaScript string and array primitives *)

Min(a, b) == IF a < b THEN a ELSE b

\* String.prototype.toLowerCase, one character
LowerChar(c) ==
    CASE c = "A" -> "a" [] c = "B" -> "b" [] c = "C" -> "c" [] c = "D" -> "d"
      [] c = "E" -> "e" [] c = "F" -> "f" [] c = "G" -> "g" [] c = "H" -> "h"
      [] c = "I" -> "i" [] c = "J" -> "j" [] c = "K" -> "k" [] c = "L" -> "l"
      [] c = "M" -> "m" [] c = "N" -> "n" [] c = "O" -> "o" [] c = "P" -> "p"
      [] c = "Q" -> "q" [] c = "R" -> "r" [] c = "S" -> "s" [] c = "T" -> "t"
      [] c = "U" -> "u" [] c = "V" -> "v" [] c = "W" -> "w" [] c = "X" -> "x"
      [] c = "Y" -> "y" [] c = "Z" -> "z" [] OTHER -> c

RECURSIVE LowerFrom(_, _)
LowerFrom(s, i) ==
    IF i > Len(s) THEN ""
    ELSE LowerChar(SubSeq(s, i, i)) \o LowerFrom(s, i + 1)

\* String.prototype.toLowerCase
toLowerCase(s) == LowerFrom(s, 1)

RECURSIVE SplitFrom(_, _, _)
SplitFrom(s, i, cur) ==
    IF i > Len(s) THEN <<cur>>
    ELSE IF SubSeq(s, i, i) = " "
         THEN <<cur>> \o SplitFrom(s, i + 1, "")
         ELSE SplitFrom(s, i + 1, cur \o SubSeq(s, i, i))

\* String.prototype.split(' '): cuts at every single space, so two spaces
\* in a row, or a leading or trailing space, give an empty token
split(s) == SplitFrom(s, 1, "")

RECURSIVE join(_, _)
\* Array.prototype.join(sep)
join(arr, sep) ==
    IF Len(arr) = 0 THEN ""
    ELSE IF Len(arr) = 1 THEN arr[1]
    ELSE arr[1] \o sep \o join(Tail(arr), sep)

\* Array.prototype.slice(0, n)
slice(arr, n) == SubSeq(arr, 1, Min(n, Len(arr)))

\* the elements of a sequence
Range(arr) == {arr[i] : i \in 1..Len(arr)}

RECURSIVE UniqueFrom(_, _, _)
UniqueFrom(arr, i, acc) ==
    IF i > Len(arr) THEN acc
    ELSE IF arr[i] \in Range(acc)
         THEN UniqueFrom(arr, i + 1, acc)
         ELSE UniqueFrom(arr, i + 1, Append(acc, arr[i]))

\* [...new Set(arr)]: a Set iterates in insertion order
unique(arr) == UniqueFrom(arr, 1, <<>>)

\* .filter((word) => word.length > 3)
longWords(words) == SelectSeq(words, LAMBDA word : Len(word) > 3)

\* `${arr[0]}` in a template literal: an index past the end is undefined
firstOrUndefined(arr) == IF Len(arr) > 0 THEN arr[1] ELSE "undefined"

-----------------------------------------------------------------------------
(* buildSearchQueries *)

projectTerms(analysis) == longWords(split(toLowerCase(analysis.projectType)))

deliverableTerms(analysis) ==
    longWords(split(toLowerCase(join(analysis.deliverables, " "))))

\* a plausible slip: the two lists of terms merged whole
mainTermsUncut(analysis) ==
    unique(projectTerms(analysis) \o deliverableTerms(analysis))

\* a plausible slip: the spread without the Set
mainTermsRepeated(analysis) ==
    slice(projectTerms(analysis), 3) \o slice(deliverableTerms(analysis), 2)

mainTerms(analysis) ==
    unique(slice(projectTerms(analysis), 3) \o slice(deliverableTerms(analysis), 2))

techQuery(analysis) ==
    IF Len(analysis.technicalRequirements) > 0
    THEN <<firstOrUndefined(mainTerms(analysis)) \o " "
             \o analysis.technicalRequirements[1]>>
    ELSE <<>>

integrationQuery(analysis) ==
    IF Len(analysis.integrations) > 0
    THEN <<firstOrUndefined(mainTerms(analysis)) \o " "
             \o analysis.integrations[1]>>
    ELSE <<>>

\* a plausible slip: the free-text context is appended to the main query
buildSearchQueriesWithContext(analysis, questionAnswers, additionalContext) ==
    slice(<<join(mainTerms(analysis), " ") \o " " \o additionalContext>>
            \o techQuery(analysis) \o integrationQuery(analysis), 3)

\* a plausible slip: one query per technical requirement, no final cut
buildSearchQueriesUncut(analysis, questionAnswers, additionalContext) ==
    <<join(mainTerms(analysis), " ")>>
      \o [i \in 1..Len(analysis.technicalRequirements) |->
            firstOrUndefined(mainTerms(analysis)) \o " "
              \o analysis.technicalRequirements[i]]
      \o integrationQuery(analysis)

buildSearchQueries(analysis, questionAnswers, additionalContext) ==
    slice(<<join(mainTerms(analysis), " ")>>
            \o techQuery(analysis) \o integrationQuery(analysis), 3)

-----------------------------------------------------------------------------
(* The inputs of buildSearchQueries *)

ProjectTypes ==
    {"Online appointment scheduling system", "Web app",
     "Booking booking Platform for salons", "CRM  Tool"}

DeliverablePool == {"Booking UI", "SMS reminders", "API"}

RECURSIVE SeqsUpTo(_, _)
\* the sequences over S of length at most n
SeqsUpTo(S, n) ==
    IF n = 0 THEN {<<>>}
    ELSE LET shorter == SeqsUpTo(S, n - 1)
         IN  shorter \cup {Append(s, x) : s \in shorter, x \in S}

DeliverableLists == SeqsUpTo(DeliverablePool, MaxDeliverables) \ {<<>>}

TechnicalRequirementLists ==
    {<<>>, <<"React">>, <<"Node.js with Express", "React">>}

IntegrationLists == {<<>>, <<"SMS">>, <<"Stripe", "SMS">>}

Profiles ==
    [projectType : ProjectTypes,
     deliverables : DeliverableLists,
     technicalRequirements : TechnicalRequirementLists,
     integrations : IntegrationLists]

\* questionAnswers: question id -> chosen option, as a set of pairs
AnswerSets == {{}, {<<"q1", "React">>}}

AdditionalContexts == {"", "must take payments"}

-----------------------------------------------------------------------------
(* searchGitHub: one search per query, the results merged by repository id *)

\* the repository ids GitHub can return; a repository is modelled by its id,
\* its other fields are copied to the result unread
RepoIds == 1..MaxRepo

\* the outcome of one octokit.search.repos call: it throws, or it returns
\* response.data.items
SearchReplies(pages) ==
    {[failed |-> TRUE, items |-> <<>>]}
      \cup {[failed |-> FALSE, items |-> p] : p \in pages}

RECURSIVE addUniqueFrom(_, _, _, _)
addUniqueFrom(items, i, repos, seen) ==
    IF i > Len(items) THEN [allRepos |-> repos, seenRepoIds |-> seen]
    ELSE IF items[i] \notin seen
         THEN addUniqueFrom(items, i + 1, Append(repos, items[i]),
                            seen \cup {items[i]})
         ELSE addUniqueFrom(items, i + 1, repos, seen)

\* a plausible slip: every item is pushed, seen or not
addAll(items, repos, seen) ==
    [allRepos |-> repos \o items, seenRepoIds |-> seen \cup Range(items)]

\* the inner loop of searchGitHub: push the items not seen before
addUnique(items, repos, seen) == addUniqueFrom(items, 1, repos, seen)

\* a plausible slip: the catch is outside the loop, a failure ends the batch
nextQueryAbortOnFailure(i, failed, n) == IF failed THEN n + 1 ELSE i + 1

\* the for loop of searchGitHub goes on to the next query after a result and
\* after a caught failure alike
nextQuery(i, failed, n) == i + 1

\* allRepos and seenRepoIds after the reply to one query
mergeReply(reply, repos, seen) ==
    IF reply.failed
    THEN [allRepos |-> repos, seenRepoIds |-> seen]
    ELSE addUnique(reply.items, repos, seen)

-----------------------------------------------------------------------------
(* analyzeCoverage *)

FALLBACK ==
    [coveragePercentage |-> 30,
     covers |-> <<"Similar functionality detected">>,
     gaps |-> <<"Detailed analysis unavailable">>]

\* the coverage of a call that has not returned yet
NotScored == [coveragePercentage |-> -1, covers |-> <<>>, gaps |-> <<>>]

\* What anthropic.messages.create does for one call:
\*   "throws"   the call rejects
\*   "nontext"  the first content block is not text: responseText is ''
\*   "notjson"  text that JSON.parse rejects
\*   "null"     the text "null": JSON.parse returns null
\*   "json"     a JSON object; has* tell which fields it carries
ModelReply(kind, hasPct, pct, hasCovers, covers, hasGaps, gaps) ==
    [kind |-> kind, hasPct |-> hasPct, pct |-> pct, hasCovers |-> hasCovers,
     covers |-> covers, hasGaps |-> hasGaps, gaps |-> gaps]

FailingReply(kind) == ModelReply(kind, FALSE, 0, FALSE, <<>>, FALSE, <<>>)

\* the reply of a call that has not returned yet
NoReply == FailingReply("none")

FailingReplies ==
    {FailingReply(k) : k \in {"throws", "nontext", "notjson", "null"}}

\* the try block of analyzeCoverage throws
coverageThrows(reply) == reply.kind # "json"

\* the object analyzeCoverage builds from the parsed reply:
\* coverage.coveragePercentage || 0, coverage.covers || [], coverage.gaps || []
parsedCoverage(reply) ==
    [coveragePercentage |-> IF reply.hasPct THEN reply.pct ELSE 0,
     covers |-> IF reply.hasCovers THEN reply.covers ELSE <<>>,
     gaps |-> IF reply.hasGaps THEN reply.gaps ELSE <<>>]

\* a plausible slip: only the model call is guarded, JSON.parse is not
analyzeCoverageParseUnguarded(repo, analysis, reply) ==
    IF reply.kind = "throws" THEN [raised |-> FALSE, value |-> FALLBACK]
    ELSE IF coverageThrows(reply) THEN [raised |-> TRUE, value |-> NotScored]
    ELSE [raised |-> FALSE, value |-> parsedCoverage(reply)]

\* analyzeCoverage: raised tells whether the promise rejects, value is what it
\* resolves to
analyzeCoverage(repo, analysis, reply) ==
    IF coverageThrows(reply)
    THEN [raised |-> FALSE, value |-> FALLBACK]
    ELSE [raised |-> FALSE, value |-> parsedCoverage(reply)]

-----------------------------------------------------------------------------
(* POST of the search route *)

NoResponse ==
    [status |-> 0, success |-> FALSE, results |-> <<>>, message |-> "",
     error |-> ""]

\* NextResponse.json({success: true, results, message}); message "" stands
\* for undefined
Success(results, message) ==
    [status |-> 200, success |-> TRUE, results |-> results,
     message |-> message, error |-> ""]

Failure(status, error) ==
    [status |-> status, success |-> FALSE, results |-> <<>>, message |-> "",
     error |-> error]

\* {id: repo.id, ..., ...coverage}
analyzedRepo(repo, cov) ==
    [id |-> repo, coveragePercentage |-> cov.coveragePercentage,
     covers |-> cov.covers, gaps |-> cov.gaps]

\* a plausible slip: only repositories without covers are dropped
isRelevantFallbackKept(repo) == Len(repo.covers) # 0

\* the predicate of analyzedRepos.filter
isRelevant(repo) ==
    /\ Len(repo.covers) # 0
    /\ ~(Len(repo.covers) = 1
           /\ repo.covers[1] = "Similar functionality detected")

\* a plausible slip: (a, b) => a.coveragePercentage - b.coveragePercentage
compareAscending(a, b) == a.coveragePercentage - b.coveragePercentage

\* the comparator of relevantRepos.sort
compareCoverage(a, b) == b.coveragePercentage - a.coveragePercentage

\* the place of x in a sorted array: behind every element the comparator
\* does not put after x
RECURSIVE insertSorted(_, _)
insertSorted(sorted, x) ==
    IF Len(sorted) = 0 THEN <<x>>
    ELSE IF compareCoverage(Head(sorted), x) <= 0
         THEN <<Head(sorted)>> \o insertSorted(Tail(sorted), x)
         ELSE <<x>> \o sorted

RECURSIVE sortFrom(_, _, _)
sortFrom(arr, i, sorted) ==
    IF i > Len(arr) THEN sorted
    ELSE sortFrom(arr, i + 1, insertSorted(sorted, arr[i]))

\* Array.prototype.sort with compareCoverage: a stable sort (ECMAScript 2019)
sort(arr) == sortFrom(arr, 1, <<>>)

\* a plausible slip: the message of the empty result left out
rankedResponseNoMessage(analyzedRepos) ==
    Success(slice(sort(SelectSeq(analyzedRepos, isRelevant)), MaxResults), "")

\* the response built from the analyzed repositories: filter, sort, slice
rankedResponse(analyzedRepos) ==
    LET relevantRepos == sort(SelectSeq(analyzedRepos, isRelevant))
    IN  Success(slice(relevantRepos, MaxResults),
                IF Len(relevantRepos) = 0
                THEN "No repositories found matching your requirements. Try refining your SOW or additional context."
                ELSE "")

\* the requests of the search route
SearchProfiles ==
    {[projectType |-> "Appointment scheduling system",
      deliverables |-> <<"Booking UI", "SMS reminders">>,
      technicalRequirements |-> t, integrations |-> g] :
        t \in {<<>>, <<"React">>}, g \in {<<>>, <<"SMS">>}}

\* a plausible slip: no early return for an empty list, and a join that
\* counts completions and is never reached without any
AfterSearchEmptyUnanswered(repos) ==
    /\ sPc' = "scoring"
    /\ pending' = 1..Len(slice(repos, MaxAnalyzed))
    /\ modelOut' = [i \in 1..Len(slice(repos, MaxAnalyzed)) |-> NoReply]
    /\ coverage' = [i \in 1..Len(slice(repos, MaxAnalyzed)) |-> NotScored]
    /\ UNCHANGED sResponse

\* a plausible slip: repos.map without the slice
AfterSearchUncut(repos) ==
    IF Len(repos) = 0
    THEN /\ sPc' = "done"
         /\ sResponse' = Success(<<>>,
               "No repositories found matching your requirements")
         /\ UNCHANGED <<pending, modelOut, coverage>>
    ELSE /\ sPc' = "scoring"
         /\ pending' = 1..Len(repos)
         /\ modelOut' = [i \in 1..Len(repos) |-> NoReply]
         /\ coverage' = [i \in 1..Len(repos) |-> NotScored]
         /\ UNCHANGED sResponse

\* POST after searchGitHub has returned repos: the empty answer, or the
\* launch of one analyzeCoverage call for each of the first 10
AfterSearch(repos) ==
    IF Len(repos) = 0
    THEN /\ sPc' = "done"
         /\ sResponse' = Success(<<>>,
               "No repositories found matching your requirements")
         /\ UNCHANGED <<pending, modelOut, coverage>>
    ELSE /\ sPc' = "scoring"
         /\ pending' = 1..Len(slice(repos, MaxAnalyzed))
         /\ modelOut' = [i \in 1..Len(slice(repos, MaxAnalyzed)) |-> NoReply]
         /\ coverage' = [i \in 1..Len(slice(repos, MaxAnalyzed)) |-> NotScored]
         /\ UNCHANGED sResponse

\* the request arrives: the 400 answer, or buildSearchQueries and the first
\* search of searchGitHub
SearchReceive ==
    /\ sPc = "idle"
    /\ IF ~sHasAnalysis
       THEN /\ sPc' = "done"
            /\ sResponse' = Failure(400, "Analysis is required")
            /\ UNCHANGED <<searchQueries, qi>>
       ELSE /\ sPc' = "searching"
            /\ searchQueries' = buildSearchQueries(sAnalysis, {}, "")
            /\ qi' = 1
            /\ UNCHANGED sResponse
    /\ UNCHANGED <<sHasAnalysis, sAnalysis, searchLog, allRepos, seenRepoIds,
                   pending, modelOut, coverage, firstSettled>>
    /\ UNCHANGED <<queryVars, detailVars, uiVars, cleanVars, viewVars>>

\* searchGitHub: the search of query qi returns or throws
SearchStep(reply) ==
    LET merged == mergeReply(reply, allRepos, seenRepoIds)
    IN  /\ searchLog' = Append(searchLog, reply)
        /\ allRepos' = merged.allRepos
        /\ seenRepoIds' = merged.seenRepoIds
        /\ qi' = nextQuery(qi, reply.failed, Len(searchQueries))

\* the pages GitHub answers with in the search route: none or one repository
SinglePages == {<<>>} \cup {<<r>> : r \in RepoIds}

\* the search of query qi ends; after the last one POST goes on
GitHubReturn ==
    /\ sPc = "searching"
    /\ \E reply \in SearchReplies(SinglePages) :
          /\ SearchStep(reply)
          /\ IF qi' <= Len(searchQueries)
             THEN UNCHANGED <<sPc, pending, modelOut, coverage, sResponse>>
             ELSE AfterSearch(allRepos')
    /\ UNCHANGED <<sHasAnalysis, sAnalysis, searchQueries, firstSettled>>
    /\ UNCHANGED <<queryVars, detailVars, uiVars, cleanVars, viewVars>>

\* the coverage replies of the search route
JsonReplies ==
    {ModelReply("json", FALSE, 0, FALSE, <<>>, FALSE, <<>>),
     ModelReply("json", TRUE, 80, TRUE, <<"Booking UI">>, TRUE, <<"SMS">>),
     ModelReply("json", TRUE, 50, TRUE, <<"Booking UI", "API">>, FALSE, <<>>),
     ModelReply("json", TRUE, 50, TRUE, <<"API">>, TRUE, <<"SMS">>),
     ModelReply("json", TRUE, 90, FALSE, <<>>, TRUE, <<"SMS">>),
     ModelReply("json", TRUE, 30, TRUE, <<"Similar functionality detected">>,
                TRUE, <<"Detailed analysis unavailable">>),
     ModelReply("json", TRUE, 150, TRUE, <<"Booking UI">>, TRUE, <<>>),
     ModelReply("json", TRUE, -20, TRUE, <<"API">>, TRUE, <<"SMS">>)}

\* a plausible slip: the results pushed to an array as the calls end
settleInCompletionOrder(cov, i, value) ==
    LET k == CHOOSE m \in DOMAIN cov :
                 cov[m] = NotScored /\ \A l \in 1..(m - 1) : cov[l] # NotScored
    IN  [cov EXCEPT ![k] = value]

\* Promise.all resolves to an array that holds the value of each call at the
\* place of the call
settle(cov, i, value) == [cov EXCEPT ![i] = value]

\* a plausible slip: Promise.race for Promise.all
firstResolved(left) == TRUE

\* Promise.all resolves when no call is left pending
allResolved(left) == left = {}

\* the analyzeCoverage call of index i ends; the last one resolves Promise.all
\* and POST filters, sorts and answers
ModelStep(i, reply) ==
    LET r == analyzeCoverage(allRepos[i], sAnalysis, reply)
        scored == settle(coverage, i, r.value)
    IN  /\ modelOut' = [modelOut EXCEPT ![i] = reply]
        /\ pending' = pending \ {i}
        /\ firstSettled' = IF firstSettled = 0 THEN i ELSE firstSettled
        /\ IF r.raised
           THEN /\ sPc' = "done"
                /\ sResponse' = Failure(500, "Failed to search repositories")
                /\ UNCHANGED coverage
           ELSE /\ coverage' = scored
                /\ IF allResolved(pending')
                   THEN /\ sPc' = "done"
                        /\ sResponse' = rankedResponse(
                              [k \in 1..Len(scored) |->
                                 analyzedRepo(allRepos[k], scored[k])])
                   ELSE UNCHANGED <<sPc, sResponse>>

\* one analyzeCoverage call ends, whichever and however
ModelReturn ==
    /\ sPc = "scoring"
    /\ \E i \in pending, reply \in FailingReplies \cup JsonReplies :
          ModelStep(i, reply)
    /\ UNCHANGED <<sHasAnalysis, sAnalysis, searchQueries, qi, searchLog,
                   allRepos, seenRepoIds>>
    /\ UNCHANGED <<queryVars, detailVars, uiVars, cleanVars, viewVars>>

\* the reply of the model to the prompt of one repository and one analysis,
\* for a model that answers the same prompt the same way
fixedReply(repo, analysis) ==
    IF /\ Len(analysis.technicalRequirements) > 0
       /\ (repo + Len(analysis.integrations)) % 4 = 0
    THEN FailingReply("throws")
    ELSE ModelReply("json", TRUE, 40 + 10 * (repo % 3), TRUE, <<"Booking UI">>,
                    TRUE, <<"SMS">>)

\* POST goes on after searchGitHub has returned
ScoreLaunch ==
    /\ sPc = "returned"
    /\ AfterSearch(allRepos)
    /\ UNCHANGED <<sHasAnalysis, sAnalysis, searchQueries, qi, searchLog,
                   allRepos, seenRepoIds, firstSettled>>
    /\ UNCHANGED <<queryVars, detailVars, uiVars, cleanVars, viewVars>>

\* one analyzeCoverage call ends, whichever, with the reply of its prompt
ScoreReturn ==
    /\ sPc = "scoring"
    /\ \E i \in pending : ModelStep(i, fixedReply(allRepos[i], sAnalysis))
    /\ UNCHANGED <<sHasAnalysis, sAnalysis, searchQueries, qi, searchLog,
                   allRepos, seenRepoIds>>
    /\ UNCHANGED <<queryVars, detailVars, uiVars, cleanVars, viewVars>>

-----------------------------------------------------------------------------
(* The repository detail route *)

\* Date.now(), in hours
Now == 400 * HoursPerDay

Fetches == {"repo", "contributors", "readme"}

\* repo.updated_at and repo.pushed_at, in hours; ok is FALSE when
\* octokit.repos.get throws
RepoReply(ok, updated, pushed) ==
    [ok |-> ok, updated_at |-> updated, pushed_at |-> pushed]

NoRepo == RepoReply(FALSE, 0, 0)

\* ages around the two thresholds, at the start and at the end of a day
UpdatedAges ==
    {d * HoursPerDay + h : d \in {0, 89, 90, 91, 364, 365, 366}, h \in {0, 23}}

PushedAges == {d * HoursPerDay : d \in {0, 91, 366}}

RepoReplies ==
    {NoRepo} \cup {RepoReply(TRUE, Now - u, Now - p) :
                     u \in UpdatedAges, p \in PushedAges}

\* contributorsData.data.length, or -1 when listContributors throws
ContributorReplies == {-1, 0, 3}

\* the decoded README, ok is FALSE when octokit.repos.getReadme throws
ReadmeReply(ok, content) == [ok |-> ok, content |-> content]

\* s repeated n times
RECURSIVE repeat(_, _)
repeat(s, n) ==
    IF n = 0 THEN ""
    ELSE IF n % 2 = 0
         THEN LET half == repeat(s, n \div 2) IN half \o half
         ELSE s \o repeat(s, n - 1)

\* READMEs of 0, 26, 3000, 3001 and 10000 characters
ReadmeReplies ==
    {ReadmeReply(FALSE, ""), ReadmeReply(TRUE, ""),
     ReadmeReply(TRUE, "# Booking\nA booking system"),
     ReadmeReply(TRUE, repeat("0123456789", 300)),
     ReadmeReply(TRUE, repeat("0123456789", 300) \o "x"),
     ReadmeReply(TRUE, repeat("# Booking\n", 1000))}

\* a plausible slip: the README handed over whole
fetchReadmeUncut(reply) ==
    IF reply.ok
    THEN [raised |-> FALSE, value |-> reply.content]
    ELSE [raised |-> FALSE, value |-> "README not available"]

\* a plausible slip: fetchReadme without its try and catch
fetchReadmeUnguarded(reply) ==
    IF reply.ok
    THEN [raised |-> FALSE, value |-> SubSeq(reply.content, 1,
                                             Min(ReadmeLimit, Len(reply.content)))]
    ELSE [raised |-> TRUE, value |-> ""]

\* fetchReadme: raised tells whether the promise rejects, value is what it
\* resolves to
fetchReadme(reply) ==
    IF reply.ok
    THEN [raised |-> FALSE, value |-> SubSeq(reply.content, 1,
                                             Min(ReadmeLimit, Len(reply.content)))]
    ELSE [raised |-> FALSE, value |-> "README not available"]

\* Math.floor((Date.now() - new Date(repo.updated_at).getTime()) / day)
daysSince(timestamp) == (Now - timestamp) \div HoursPerDay

\* a plausible slip: >= for > at the two thresholds
healthOfInclusive(days) ==
    IF days >= 365 THEN "abandoned"
    ELSE IF days >= 90 THEN "stale"
    ELSE "active"

\* the health POST sets from daysSinceUpdate
healthOf(days) ==
    IF days > 365 THEN "abandoned"
    ELSE IF days > 90 THEN "stale"
    ELSE "active"

\* the timestamp POST measures the age of
healthTimestamp(repo) == repo.updated_at

FitAnalysis(covers, gaps, timeSaved, recommendedModifications, risks) ==
    [covers |-> covers, gaps |-> gaps, timeSaved |-> timeSaved,
     recommendedModifications |-> recommendedModifications, risks |-> risks]

AiAnalysis(readmeSummary, fitAnalysis) ==
    [readmeSummary |-> readmeSummary, fitAnalysis |-> fitAnalysis]

\* the value of the catch block of generateDetailedAnalysis
DETAIL_FALLBACK ==
    AiAnalysis("Analysis unavailable",
               FitAnalysis(<<"Repository features detected">>,
                           <<"Detailed analysis unavailable">>,
                           "Unable to estimate",
                           <<"Further analysis needed">>,
                           <<"Analysis incomplete">>))

EmptyFit == FitAnalysis(<<>>, <<>>, "", <<>>, <<>>)

\* What anthropic.messages.create does for the detail call: kind as for the
\* coverage call; a "json" reply carries readmeSummary ("" when missing) and
\* fitAnalysis when hasFit, whose timeSaved is "" when missing
DetailReply(kind, readmeSummary, hasFit, fitAnalysis) ==
    [kind |-> kind, readmeSummary |-> readmeSummary, hasFit |-> hasFit,
     fitAnalysis |-> fitAnalysis]

\* no model call has ended
NoDetailReply == DetailReply("none", "", FALSE, EmptyFit)

DetailReplies ==
    {DetailReply(k, "", FALSE, EmptyFit) : k \in {"throws", "notjson", "null"}}
      \cup {DetailReply("json", "", FALSE, EmptyFit),
            DetailReply("json", "Books appointments.", TRUE,
                        FitAnalysis(<<"Booking UI">>, <<"SMS reminders">>,
                                    "3-4 weeks", <<"Add SMS">>, <<"Dated UI">>))}

\* a plausible slip: the summary of the reply passed on as it came
parsedDetailSummaryAsSent(reply) ==
    AiAnalysis(
        reply.readmeSummary,
        IF reply.hasFit
        THEN [reply.fitAnalysis EXCEPT
                !.timeSaved = IF @ # "" THEN @ ELSE "Unable to estimate"]
        ELSE FitAnalysis(<<>>, <<>>, "Unable to estimate", <<>>, <<>>))

\* the object generateDetailedAnalysis builds from the parsed reply
parsedDetail(reply) ==
    AiAnalysis(
        IF reply.readmeSummary # "" THEN reply.readmeSummary
        ELSE "No summary available",
        IF reply.hasFit
        THEN [reply.fitAnalysis EXCEPT
                !.timeSaved = IF @ # "" THEN @ ELSE "Unable to estimate"]
        ELSE FitAnalysis(<<>>, <<>>, "Unable to estimate", <<>>, <<>>))

\* a plausible slip: the parsing of the reply moved out of the try
detailAnalysisRaisesOnParse(reply) == reply.kind \in {"notjson", "null"}

\* whether generateDetailedAnalysis rejects: its whole body is in a try whose
\* catch returns
detailAnalysisRaises(reply) == FALSE

\* generateDetailedAnalysis once the model call has ended
generateDetailedAnalysis(reply) ==
    IF reply.kind # "json" THEN DETAIL_FALLBACK ELSE parsedDetail(reply)

NoDetail ==
    [contributors |-> 0, lastCommit |-> 0, healthStatus |-> "none",
     readmeSummary |-> "", fitAnalysis |-> EmptyFit]

NoDetailResponse ==
    [status |-> 0, success |-> FALSE, detail |-> NoDetail, error |-> ""]

DetailFailure(status, error) ==
    [status |-> status, success |-> FALSE, detail |-> NoDetail, error |-> error]

\* NextResponse.json({success: true, detail: repoDetail}); of repoDetail the
\* fields copied from the request and from repo unread are left out
DetailSuccess(repo, contributors, health, ai) ==
    [status |-> 200, success |-> TRUE,
     detail |-> [contributors |-> contributors, lastCommit |-> repo.pushed_at,
                 healthStatus |-> health, readmeSummary |-> ai.readmeSummary,
                 fitAnalysis |-> ai.fitAnalysis],
     error |-> ""]

\* the request arrives: the 400 answer, or the three fetches are started
DetailReceive ==
    /\ dPc = "idle"
    /\ IF ~dHasOwner
       THEN /\ dPc' = "done"
            /\ dResponse' = DetailFailure(400, "Owner and name are required")
            /\ UNCHANGED dFetch
       ELSE /\ dPc' = "fetching"
            /\ dFetch' = [f \in Fetches |-> "pending"]
            /\ UNCHANGED dResponse
    /\ UNCHANGED <<dHasOwner, dHasAnalysis, repoData, contributorsData,
                   readmeData, readmeFailed, readmeContent, detailOut,
                   daysSinceUpdate, healthStatus, readmeUsed>>
    /\ UNCHANGED <<queryVars, searchVars, uiVars, cleanVars, viewVars>>

\* POST once Promise.all has resolved: the health, then
\* generateDetailedAnalysis up to its model call; without an analysis its
\* prompt throws inside the try, and POST answers with the fallback at once
AfterFetch(repo, contributors, readme) ==
    /\ daysSinceUpdate' = daysSince(healthTimestamp(repo))
    /\ healthStatus' = healthOf(daysSinceUpdate')
    /\ readmeUsed' = readme
    /\ IF dHasAnalysis
       THEN /\ dPc' = "analyzing"
            /\ UNCHANGED dResponse
       ELSE /\ dPc' = "done"
            /\ dResponse' = DetailSuccess(repo, contributors, healthStatus',
                                          DETAIL_FALLBACK)

\* a plausible slip: each fetch in its own catch, a failed one passing on
\* the value at hand
FetchReturnTolerant(f, raised, repo, contributors, readme) ==
    /\ dPc = "fetching"
    /\ dFetch[f] = "pending"
    /\ dFetch' = [dFetch EXCEPT ![f] = IF raised THEN "failed" ELSE "ok"]
    /\ repoData' = repo
    /\ contributorsData' = contributors
    /\ readmeData' = readme
    /\ IF \A g \in Fetches : dFetch'[g] # "pending"
       THEN AfterFetch(repo, contributors, readme)
       ELSE UNCHANGED <<dPc, dResponse, daysSinceUpdate, healthStatus,
                        readmeUsed>>
    /\ UNCHANGED <<dHasOwner, dHasAnalysis, detailOut>>
    /\ UNCHANGED <<queryVars, searchVars, uiVars, cleanVars, viewVars>>

\* one of the three fetches ends with outcome (raised, repo, contributors,
\* readme): a rejection rejects Promise.all and POST answers 500; the last
\* success resolves it
FetchReturn(f, raised, repo, contributors, readme) ==
    /\ dPc = "fetching"
    /\ dFetch[f] = "pending"
    /\ dFetch' = [dFetch EXCEPT ![f] = IF raised THEN "failed" ELSE "ok"]
    /\ repoData' = repo
    /\ contributorsData' = contributors
    /\ readmeData' = readme
    /\ IF raised
       THEN /\ dPc' = "done"
            /\ dResponse' = DetailFailure(500, "Failed to fetch repository details")
            /\ UNCHANGED <<daysSinceUpdate, healthStatus, readmeUsed>>
       ELSE IF \A g \in Fetches : dFetch'[g] = "ok"
            THEN AfterFetch(repo, contributors, readme)
            ELSE UNCHANGED <<dPc, dResponse, daysSinceUpdate, healthStatus,
                             readmeUsed>>
    /\ UNCHANGED <<dHasOwner, dHasAnalysis, detailOut>>
    /\ UNCHANGED <<queryVars, searchVars, uiVars, cleanVars, viewVars>>

\* octokit.repos.get ends
RepoReturn ==
    \E reply \in RepoReplies :
        /\ FetchReturn("repo", ~reply.ok, reply, contributorsData, readmeData)
        /\ UNCHANGED <<readmeFailed, readmeContent>>

\* octokit.repos.listContributors ends
ContributorsReturn ==
    \E n \in ContributorReplies :
        /\ FetchReturn("contributors", n < 0, repoData, n, readmeData)
        /\ UNCHANGED <<readmeFailed, readmeContent>>

\* fetchReadme ends; dFetch records what octokit.repos.getReadme did
ReadmeReturn ==
    \E reply \in ReadmeReplies :
        LET r == fetchReadme(reply)
        IN  /\ FetchReturn("readme", r.raised, repoData, contributorsData, r.value)
            /\ readmeFailed' = ~reply.ok
            /\ readmeContent' = reply.content

\* the model call of generateDetailedAnalysis ends and POST answers
DetailModelReturn ==
    /\ dPc = "analyzing"
    /\ \E reply \in DetailReplies :
          /\ detailOut' = reply
          /\ dResponse' =
                IF detailAnalysisRaises(reply)
                THEN DetailFailure(500, "Failed to fetch repository details")
                ELSE DetailSuccess(repoData, contributorsData, healthStatus,
                                   generateDetailedAnalysis(reply))
    /\ dPc' = "done"
    /\ UNCHANGED <<dHasOwner, dHasAnalysis, dFetch, repoData, contributorsData,
                   readmeData, readmeFailed, readmeContent, daysSinceUpdate,
                   healthStatus, readmeUsed>>
    /\ UNCHANGED <<queryVars, searchVars, uiVars, cleanVars, viewVars>>

-----------------------------------------------------------------------------
(* The store and the AnalysisStep component *)

\* the texts UploadStep submits
SowContents == {"SOW A", "SOW B"}

\* the messages analyzeSOW catches: the default of a response that is not ok,
\* the error of the server, the message of a rejected fetch
AnalyzeErrors == {"Failed to analyze SOW", "SOW content is required",
                  "Failed to fetch"}

\* the messages handleSearchRepos catches
SearchErrors == {"Failed to search repositories", "Failed to fetch"}

\* one /api/analyze request: what started it, and whether a request of the
\* same SOW had failed before
AnalyzeRequest(origin, afterFailure) ==
    [origin |-> origin, afterFailure |-> afterFailure]

\* one /api/search request in flight: the SOW it was started for, and whether
\* the component that started it is still mounted
SearchRequest(sow, live) == [sow |-> sow, live |-> live]

\* the sequence without its k-th element
removeAt(arr, k) == SubSeq(arr, 1, k - 1) \o SubSeq(arr, k + 1, Len(arr))

\* the page renders the component of currentStep: AnalysisStep is mounted
\* while the step is 'analysis'
Mounted == uCurrentStep = "analysis"

\* the condition of the auto-trigger effect
effectDue ==
    /\ Mounted
    /\ uSowContent # ""
    /\ uAnalysis = ""
    /\ ~uIsAnalyzing
    /\ ~uHasAttemptedAnalysis

\* analyzeSOW up to its fetch: setIsAnalyzing(true), setLocalError(null)
analyzeSOWStart(origin) ==
    /\ uIsAnalyzing' = TRUE
    /\ uLocalError' = ""
    /\ uRequests' = Append(uRequests, AnalyzeRequest(origin, uFailed))

\* the in-flight searches once the component has unmounted
unmountedSearches ==
    [k \in 1..Len(uSearchesInFlight) |->
        SearchRequest(uSearchesInFlight[k].sow, FALSE)]

\* UploadStep.handleSubmit succeeds: setSOWContent; AnalysisStep mounts with
\* its initial local state
Submit ==
    /\ uCurrentStep = "upload"
    /\ \E content \in SowContents : uSowContent' = content
    /\ uCurrentStep' = "analysis"
    /\ uLocalError' = ""
    /\ uHasAttemptedAnalysis' = FALSE
    /\ uFailed' = FALSE
    /\ UNCHANGED <<uAnalysis, uIsAnalyzing, uIsSearching, uSearchResults,
                   uError, uSearchesInFlight, uRequests>>
    /\ UNCHANGED <<queryVars, searchVars, detailVars, cleanVars, viewVars>>

\* a plausible slip: the effect without its flag
AutoTriggerFlagUnset ==
    /\ effectDue
    /\ Len(uRequests) < MaxRequests
    /\ analyzeSOWStart("auto")
    /\ UNCHANGED <<uCurrentStep, uSowContent, uAnalysis, uIsSearching,
                   uSearchResults, uError, uHasAttemptedAnalysis,
                   uSearchesInFlight, uFailed>>
    /\ UNCHANGED <<queryVars, searchVars, detailVars, cleanVars, viewVars>>

\* the effect runs after a render that changed one of its dependencies
AutoTrigger ==
    /\ effectDue
    /\ Len(uRequests) < MaxRequests
    /\ uHasAttemptedAnalysis' = TRUE
    /\ analyzeSOWStart("auto")
    /\ UNCHANGED <<uCurrentStep, uSowContent, uAnalysis, uIsSearching,
                   uSearchResults, uError, uSearchesInFlight, uFailed>>
    /\ UNCHANGED <<queryVars, searchVars, detailVars, cleanVars, viewVars>>

\* the /api/analyze response is ok: setAnalysis, then the finally block
AnalyzeOk ==
    /\ uIsAnalyzing
    /\ uAnalysis' = "profile"
    /\ uIsAnalyzing' = FALSE
    /\ UNCHANGED <<uCurrentStep, uSowContent, uIsSearching, uSearchResults,
                   uError, uLocalError, uHasAttemptedAnalysis,
                   uSearchesInFlight, uRequests, uFailed>>
    /\ UNCHANGED <<queryVars, searchVars, detailVars, cleanVars, viewVars>>

\* the fetch rejects or the response is not ok: the catch block, then the
\* finally block
AnalyzeFail ==
    /\ uIsAnalyzing
    /\ \E errorMessage \in AnalyzeErrors :
          /\ uLocalError' = errorMessage
          /\ uError' = errorMessage
    /\ uIsAnalyzing' = FALSE
    /\ uFailed' = TRUE
    /\ UNCHANGED <<uCurrentStep, uSowContent, uAnalysis, uIsSearching,
                   uSearchResults, uHasAttemptedAnalysis, uSearchesInFlight,
                   uRequests>>
    /\ UNCHANGED <<queryVars, searchVars, detailVars, cleanVars, viewVars>>

\* the click on Retry Analysis of the error screen:
\* setHasAttemptedAnalysis(false); analyzeSOW()
RetryClick ==
    /\ Mounted
    /\ ~uIsAnalyzing
    /\ uLocalError # ""
    /\ ~effectDue
    /\ Len(uRequests) < MaxRequests
    /\ uHasAttemptedAnalysis' = FALSE
    /\ analyzeSOWStart("retry")
    /\ UNCHANGED <<uCurrentStep, uSowContent, uAnalysis, uIsSearching,
                   uSearchResults, uError, uSearchesInFlight, uFailed>>
    /\ UNCHANGED <<queryVars, searchVars, detailVars, cleanVars, viewVars>>

\* the click on Start Over, of the error screen, of the analysis view or of
\* the results page: reset; the component unmounts
StartOver ==
    /\ \/ Mounted /\ ~uIsAnalyzing /\ ~effectDue
             /\ (uLocalError # "" \/ uAnalysis # "")
       \/ uCurrentStep = "results"
    /\ uCurrentStep' = "upload"
    /\ uSowContent' = ""
    /\ uAnalysis' = ""
    /\ uIsAnalyzing' = FALSE
    /\ uIsSearching' = FALSE
    /\ uSearchResults' = ""
    /\ uError' = ""
    /\ uLocalError' = ""
    /\ uHasAttemptedAnalysis' = FALSE
    /\ uSearchesInFlight' = unmountedSearches
    /\ UNCHANGED <<uRequests, uFailed>>
    /\ UNCHANGED <<queryVars, searchVars, detailVars, cleanVars, viewVars>>

\* the click on the search button of the analysis view: handleSearchRepos up
\* to its fetch
SearchClick ==
    /\ Mounted
    /\ ~uIsAnalyzing
    /\ uLocalError = ""
    /\ uAnalysis # ""
    /\ ~uIsSearching
    /\ Len(uSearchesInFlight) < MaxInFlight
    /\ uIsSearching' = TRUE
    /\ uSearchesInFlight' = Append(uSearchesInFlight,
                                   SearchRequest(uSowContent, TRUE))
    /\ UNCHANGED <<uCurrentStep, uSowContent, uAnalysis, uIsAnalyzing,
                   uSearchResults, uError, uLocalError, uHasAttemptedAnalysis,
                   uRequests, uFailed>>
    /\ UNCHANGED <<queryVars, searchVars, detailVars, cleanVars, viewVars>>

\* a /api/search response is ok: setSearchResults; the page leaves the
\* component
SearchOk ==
    /\ \E k \in 1..Len(uSearchesInFlight) :
          /\ uSearchResults' = "results for " \o uSearchesInFlight[k].sow
          /\ uSearchesInFlight' =
                [j \in 1..(Len(uSearchesInFlight) - 1) |->
                    SearchRequest(removeAt(uSearchesInFlight, k)[j].sow, FALSE)]
    /\ uCurrentStep' = "results"
    /\ uIsSearching' = FALSE
    /\ uLocalError' = ""
    /\ uHasAttemptedAnalysis' = FALSE
    /\ UNCHANGED <<uSowContent, uAnalysis, uIsAnalyzing, uError, uRequests,
                   uFailed>>
    /\ UNCHANGED <<queryVars, searchVars, detailVars, cleanVars, viewVars>>

\* a /api/search fetch rejects or its response is not ok: the catch block;
\* setLocalError reaches only the component that started the request
SearchFail ==
    /\ \E k \in 1..Len(uSearchesInFlight), errorMessage \in SearchErrors :
          /\ uLocalError' = IF uSearchesInFlight[k].live THEN errorMessage
                            ELSE uLocalError
          /\ uError' = errorMessage
          /\ uSearchesInFlight' = removeAt(uSearchesInFlight, k)
    /\ uIsSearching' = FALSE
    /\ UNCHANGED <<uCurrentStep, uSowContent, uAnalysis, uIsAnalyzing,
                   uSearchResults, uHasAttemptedAnalysis, uRequests, uFailed>>
    /\ UNCHANGED <<queryVars, searchVars, detailVars, cleanVars, viewVars>>

-----------------------------------------------------------------------------
(* cleanText *)

RECURSIVE replaceAll(_, _, _)
\* String.prototype.replace with a global pattern that matches pat
replaceAll(s, pat, by) ==
    IF Len(s) < Len(pat) THEN s
    ELSE IF SubSeq(s, 1, Len(pat)) = pat
         THEN by \o replaceAll(SubSeq(s, Len(pat) + 1, Len(s)), pat, by)
         ELSE SubSeq(s, 1, 1) \o replaceAll(SubSeq(s, 2, Len(s)), pat, by)

RECURSIVE newlineRun(_)
\* the number of newlines s starts with
newlineRun(s) ==
    IF Len(s) > 0 /\ SubSeq(s, 1, 1) = "\n"
    THEN 1 + newlineRun(SubSeq(s, 2, Len(s)))
    ELSE 0

RECURSIVE collapseNewlines(_)
\* .replace(/\n{3,}/g, '\n\n')
collapseNewlines(s) ==
    IF Len(s) = 0 THEN ""
    ELSE LET run == newlineRun(s)
         IN  IF run >= 3
             THEN "\n\n" \o collapseNewlines(SubSeq(s, run + 1, Len(s)))
             ELSE IF run > 0
                  THEN SubSeq(s, 1, run)
                         \o collapseNewlines(SubSeq(s, run + 1, Len(s)))
                  ELSE SubSeq(s, 1, 1)
                         \o collapseNewlines(SubSeq(s, 2, Len(s)))

RECURSIVE splitLinesFrom(_, _, _)
splitLinesFrom(s, i, cur) ==
    IF i > Len(s) THEN <<cur>>
    ELSE IF SubSeq(s, i, i) = "\n"
         THEN <<cur>> \o splitLinesFrom(s, i + 1, "")
         ELSE splitLinesFrom(s, i + 1, cur \o SubSeq(s, i, i))

\* .split('\n')
splitLines(s) == splitLinesFrom(s, 1, "")

\* the white space and line terminators that trim and trimEnd remove
isSpace(c) == c \in {" ", "\t", "\n", "\r"}

RECURSIVE trimEnd(_)
\* String.prototype.trimEnd
trimEnd(s) ==
    IF Len(s) > 0 /\ isSpace(SubSeq(s, Len(s), Len(s)))
    THEN trimEnd(SubSeq(s, 1, Len(s) - 1))
    ELSE s

RECURSIVE trimStart(_)
trimStart(s) ==
    IF Len(s) > 0 /\ isSpace(SubSeq(s, 1, 1))
    THEN trimStart(SubSeq(s, 2, Len(s)))
    ELSE s

\* String.prototype.trim
trim(s) == trimStart(trimEnd(s))

\* cleanText: the line endings, the runs of newlines, then the end of every
\* line, then the two ends of the text
cleanText(text) ==
    LET unix == replaceAll(replaceAll(text, "\r\n", "\n"), "\r", "\n")
        lines == splitLines(collapseNewlines(unix))
    IN  trim(join([k \in 1..Len(lines) |-> trimEnd(lines[k])], "\n"))

\* the pieces the texts are made of
TextPieces == {"a", "\n", " \n", "\r"}

RECURSIVE TextsUpTo(_)
\* the texts of at most n pieces
TextsUpTo(n) ==
    IF n = 0 THEN {""}
    ELSE LET shorter == TextsUpTo(n - 1)
         IN  shorter \cup {t \o piece : t \in shorter, piece \in TextPieces}

\* parsePDF, parseTextFile and parseDirectText return cleanText(text)
Clean ==
    /\ ~cDone
    /\ cClean' = cleanText(cText)
    /\ cDone' = TRUE
    /\ UNCHANGED cText
    /\ UNCHANGED <<queryVars, searchVars, detailVars, uiVars, viewVars>>

-----------------------------------------------------------------------------
(* The results list and the detail view: SearchResults, RepoDetail and the  *)
(* part of the store they share                                             *)

\* the fullName of the repositories a search has returned
ResultNames == {"acme/booking", "acme/sms"}

\* the messages fetchDetailedInfo stores when its request fails
DetailErrors == {"Failed to fetch repository details", "Failed to load details"}

\* the healthStatus values of the detail route
HealthStatuses == {"active", "stale", "abandoned"}

\* a selectedRepo; fetched tells the counts the detail route has read from
\* the zeros handleRepoClick writes
SelectedRepo(name, fetched, health, readmeSummary) ==
    [name |-> name, fetched |-> fetched, healthStatus |-> health,
     readmeSummary |-> readmeSummary]

\* selectedRepo: null
NoSelected == SelectedRepo("", FALSE, "none", "")

\* the object handleRepoClick builds from an entry of the list
placeholderDetail(name) == SelectedRepo(name, FALSE, "active", "")

\* data.detail of a 200 response of the detail route
fetchedDetail(name, health, reply) ==
    SelectedRepo(name, TRUE, health,
                 generateDetailedAnalysis(reply).readmeSummary)

\* a request of fetchDetailedInfo: the repository it asks for, the click and
\* the RepoDetail instance it belongs to
DetailRequest(name, selection, mount) ==
    [name |-> name, selection |-> selection, mount |-> mount]

\* the page renders the component of currentStep: RepoDetail is mounted
\* while the step is 'detail'
DetailMounted == vCurrentStep = "detail"

\* the condition of the effect of RepoDetail
fetchDue == vSelectedRepo # NoSelected /\ vSelectedRepo.readmeSummary = ""

\* a click on a repository of the list: setIsLoadingDetail(true), then
\* setSelectedRepo, which writes isLoadingDetail: false with the step
handleRepoClick ==
    /\ vCurrentStep = "results"
    /\ vSelections < MaxSelections
    /\ \E name \in vSearchResults : vSelectedRepo' = placeholderDetail(name)
    /\ vCurrentStep' = "detail"
    /\ vIsLoadingDetail' = FALSE
    /\ vError' = ""
    /\ vEffectDue' = TRUE
    /\ vMount' = vMount + 1
    /\ vSelections' = vSelections + 1
    /\ UNCHANGED <<vSearchResults, vDetailInFlight, vDetailRequests>>
    /\ UNCHANGED <<queryVars, searchVars, detailVars, uiVars, cleanVars>>

\* the effect runs after a render with a new selectedRepo, and starts
\* fetchDetailedInfo when the summary is empty
AutoFetch ==
    /\ vEffectDue
    /\ fetchDue => Len(vDetailRequests) < MaxFetches
    /\ vEffectDue' = FALSE
    /\ IF fetchDue
       THEN LET req == DetailRequest(vSelectedRepo.name, vSelections, vMount)
            IN  /\ vDetailInFlight' = Append(vDetailInFlight, req)
                /\ vDetailRequests' = Append(vDetailRequests, req)
       ELSE UNCHANGED <<vDetailInFlight, vDetailRequests>>
    /\ UNCHANGED <<vCurrentStep, vSearchResults, vSelectedRepo,
                   vIsLoadingDetail, vError, vMount, vSelections>>
    /\ UNCHANGED <<queryVars, searchVars, detailVars, uiVars, cleanVars>>

\* a 200 response: setSelectedRepo(data.detail), then finally
DetailOk ==
    /\ ~vEffectDue
    /\ \E k \in DOMAIN vDetailInFlight, reply \in DetailReplies,
          health \in HealthStatuses :
          /\ vSelectedRepo' =
                fetchedDetail(vDetailInFlight[k].name, health, reply)
          /\ vDetailInFlight' = removeAt(vDetailInFlight, k)
    /\ vCurrentStep' = "detail"
    /\ vIsLoadingDetail' = FALSE
    /\ vError' = IF DetailMounted THEN vError ELSE ""
    /\ vMount' = IF DetailMounted THEN vMount ELSE vMount + 1
    /\ vEffectDue' = TRUE
    /\ UNCHANGED <<vSearchResults, vSelections, vDetailRequests>>
    /\ UNCHANGED <<queryVars, searchVars, detailVars, uiVars, cleanVars>>

\* a response that is not ok, or no response: catch, then finally; setError
\* is the setter of the instance that started the request
DetailFail ==
    /\ ~vEffectDue
    /\ \E k \in DOMAIN vDetailInFlight, message \in DetailErrors :
          /\ vError' = IF DetailMounted /\ vDetailInFlight[k].mount = vMount
                       THEN message ELSE vError
          /\ vDetailInFlight' = removeAt(vDetailInFlight, k)
    /\ vIsLoadingDetail' = FALSE
    /\ UNCHANGED <<vCurrentStep, vSearchResults, vSelectedRepo, vEffectDue,
                   vMount, vSelections, vDetailRequests>>
    /\ UNCHANGED <<queryVars, searchVars, detailVars, uiVars, cleanVars>>

\* Back to Results, in the error view and in the detail view
handleBack ==
    /\ DetailMounted
    /\ ~vEffectDue
    /\ ~vIsLoadingDetail
    /\ vSelectedRepo' = NoSelected
    /\ vCurrentStep' = "results"
    /\ vIsLoadingDetail' = FALSE
    /\ vError' = ""
    /\ UNCHANGED <<vSearchResults, vEffectDue, vMount, vSelections,
                   vDetailInFlight, vDetailRequests>>
    /\ UNCHANGED <<queryVars, searchVars, detailVars, uiVars, cleanVars>>

\* Start Over in the results list: reset()
resetFromResults ==
    /\ vCurrentStep = "results"
    /\ vCurrentStep' = "upload"
    /\ vSearchResults' = {}
    /\ vSelectedRepo' = NoSelected
    /\ vIsLoadingDetail' = FALSE
    /\ UNCHANGED <<vError, vEffectDue, vMount, vSelections, vDetailInFlight,
                   vDetailRequests>>
    /\ UNCHANGED <<queryVars, searchVars, detailVars, uiVars, cleanVars>>

-----------------------------------------------------------------------------
(* Values of the variables of a part that a specification leaves alone *)

QueryParked ==
    /\ qAnalysis = CHOOSE p \in Profiles : TRUE
    /\ qAnswersA = {}
    /\ qContextA = ""
    /\ qAnswersB = {}
    /\ qContextB = ""
    /\ qDoneA = FALSE
    /\ qDoneB = FALSE
    /\ qOutA = <<>>
    /\ qOutB = <<>>

SearchParked ==
    /\ sPc = "off"
    /\ sHasAnalysis = FALSE
    /\ sAnalysis = CHOOSE p \in SearchProfiles : TRUE
    /\ searchQueries = <<>>
    /\ qi = 0
    /\ searchLog = <<>>
    /\ allRepos = <<>>
    /\ seenRepoIds = {}
    /\ pending = {}
    /\ modelOut = <<>>
    /\ coverage = <<>>
    /\ firstSettled = 0
    /\ sResponse = NoResponse

DetailParked ==
    /\ dPc = "off"
    /\ dHasOwner = FALSE
    /\ dHasAnalysis = FALSE
    /\ dFetch = [f \in Fetches |-> "none"]
    /\ repoData = NoRepo
    /\ contributorsData = 0
    /\ readmeData = ""
    /\ readmeFailed = FALSE
    /\ readmeContent = ""
    /\ detailOut = NoDetailReply
    /\ daysSinceUpdate = 0
    /\ healthStatus = "none"
    /\ readmeUsed = ""
    /\ dResponse = NoDetailResponse

UiParked ==
    /\ uCurrentStep = "off"
    /\ uSowContent = ""
    /\ uAnalysis = ""
    /\ uIsAnalyzing = FALSE
    /\ uIsSearching = FALSE
    /\ uSearchResults = ""
    /\ uError = ""
    /\ uLocalError = ""
    /\ uHasAttemptedAnalysis = FALSE
    /\ uSearchesInFlight = <<>>
    /\ uRequests = <<>>
    /\ uFailed = FALSE

CleanParked ==
    /\ cText = ""
    /\ cDone = FALSE
    /\ cClean = ""

ViewParked ==
    /\ vCurrentStep = "off"
    /\ vSearchResults = {}
    /\ vSelectedRepo = NoSelected
    /\ vIsLoadingDetail = FALSE
    /\ vError = ""
    /\ vEffectDue = FALSE
    /\ vMount = 0
    /\ vSelections = 0
    /\ vDetailInFlight = <<>>
    /\ vDetailRequests = <<>>

-----------------------------------------------------------------------------
(* Specification of buildSearchQueries: two calls on the same profile *)

InitQuery ==
    /\ qAnalysis \in Profiles
    /\ qAnswersA \in AnswerSets
    /\ qContextA \in AdditionalContexts
    /\ qAnswersB \in AnswerSets
    /\ qContextB \in AdditionalContexts
    /\ qDoneA = FALSE
    /\ qDoneB = FALSE
    /\ qOutA = <<>>
    /\ qOutB = <<>>
    /\ SearchParked
    /\ DetailParked
    /\ UiParked
    /\ CleanParked
    /\ ViewParked

CallA ==
    /\ ~qDoneA
    /\ qOutA' = buildSearchQueries(qAnalysis, qAnswersA, qContextA)
    /\ qDoneA' = TRUE
    /\ UNCHANGED <<qAnalysis, qAnswersA, qContextA, qAnswersB, qContextB,
                   qDoneB, qOutB>>
    /\ UNCHANGED <<searchVars, detailVars, uiVars, cleanVars, viewVars>>

CallB ==
    /\ ~qDoneB
    /\ qOutB' = buildSearchQueries(qAnalysis, qAnswersB, qContextB)
    /\ qDoneB' = TRUE
    /\ UNCHANGED <<qAnalysis, qAnswersA, qContextA, qAnswersB, qContextB,
                   qDoneA, qOutA>>
    /\ UNCHANGED <<searchVars, detailVars, uiVars, cleanVars, viewVars>>

NextQuery == CallA \/ CallB

SpecQuery == InitQuery /\ [][NextQuery]_vars

-----------------------------------------------------------------------------
(* Specification of searchGitHub: the call with the queries of a profile,  *)
(* until it returns                                                        *)

\* the pages GitHub answers with: up to MaxItems repositories, in any order,
\* repeats included
Pages == SeqsUpTo(RepoIds, MaxItems)

InitGitHub ==
    /\ sPc = "searching"
    /\ sHasAnalysis = TRUE
    /\ sAnalysis \in SearchProfiles
    /\ searchQueries = buildSearchQueries(sAnalysis, {}, "")
    /\ qi = 1
    /\ searchLog = <<>>
    /\ allRepos = <<>>
    /\ seenRepoIds = {}
    /\ pending = {}
    /\ modelOut = <<>>
    /\ coverage = <<>>
    /\ firstSettled = 0
    /\ sResponse = NoResponse
    /\ QueryParked
    /\ DetailParked
    /\ UiParked
    /\ CleanParked
    /\ ViewParked

\* the search of query qi ends; after the last one searchGitHub returns
GitHubStep ==
    /\ sPc = "searching"
    /\ \E reply \in SearchReplies(Pages) :
          /\ SearchStep(reply)
          /\ sPc' = IF qi' <= Len(searchQueries) THEN "searching" ELSE "returned"
    /\ UNCHANGED <<sHasAnalysis, sAnalysis, searchQueries, pending, modelOut,
                   coverage, firstSettled, sResponse>>
    /\ UNCHANGED <<queryVars, detailVars, uiVars, cleanVars, viewVars>>

NextGitHub == GitHubStep

SpecGitHub == InitGitHub /\ [][NextGitHub]_vars

-----------------------------------------------------------------------------
(* Specification of the search route: one request from its arrival to its  *)
(* response                                                                *)

InitSearch ==
    /\ sPc = "idle"
    /\ sHasAnalysis \in BOOLEAN
    /\ sAnalysis \in SearchProfiles
    /\ searchQueries = <<>>
    /\ qi = 0
    /\ searchLog = <<>>
    /\ allRepos = <<>>
    /\ seenRepoIds = {}
    /\ pending = {}
    /\ modelOut = <<>>
    /\ coverage = <<>>
    /\ firstSettled = 0
    /\ sResponse = NoResponse
    /\ QueryParked
    /\ DetailParked
    /\ UiParked
    /\ CleanParked
    /\ ViewParked

NextSearch == SearchReceive \/ GitHubReturn \/ ModelReturn

SpecSearch == InitSearch /\ [][NextSearch]_vars

-----------------------------------------------------------------------------
(* Specification of the scoring: POST from the return of searchGitHub, with *)
(* n candidates that the first search found, to its response                *)

InitScore ==
    /\ sPc = "returned"
    /\ sHasAnalysis = TRUE
    /\ sAnalysis \in SearchProfiles
    /\ searchQueries = buildSearchQueries(sAnalysis, {}, "")
    /\ qi = Len(searchQueries) + 1
    /\ \E n \in 0..MaxCandidates : allRepos = [k \in 1..n |-> k]
    /\ seenRepoIds = Range(allRepos)
    /\ searchLog = [q \in 1..Len(searchQueries) |->
                      [failed |-> FALSE,
                       items |-> IF q = 1 THEN allRepos ELSE <<>>]]
    /\ pending = {}
    /\ modelOut = <<>>
    /\ coverage = <<>>
    /\ firstSettled = 0
    /\ sResponse = NoResponse
    /\ QueryParked
    /\ DetailParked
    /\ UiParked
    /\ CleanParked
    /\ ViewParked

NextScore == ScoreLaunch \/ ScoreReturn

SpecScore == InitScore /\ [][NextScore]_vars

-----------------------------------------------------------------------------
(* Specification of the detail route: one request from its arrival to its  *)
(* response                                                                *)

InitDetail ==
    /\ dPc = "idle"
    /\ dHasOwner \in BOOLEAN
    /\ dHasAnalysis \in BOOLEAN
    /\ dFetch = [f \in Fetches |-> "none"]
    /\ repoData = NoRepo
    /\ contributorsData = 0
    /\ readmeData = ""
    /\ readmeFailed = FALSE
    /\ readmeContent = ""
    /\ detailOut = NoDetailReply
    /\ daysSinceUpdate = 0
    /\ healthStatus = "none"
    /\ readmeUsed = ""
    /\ dResponse = NoDetailResponse
    /\ QueryParked
    /\ SearchParked
    /\ UiParked
    /\ CleanParked
    /\ ViewParked

NextDetail ==
    DetailReceive \/ RepoReturn \/ ContributorsReturn \/ ReadmeReturn
      \/ DetailModelReturn

SpecDetail == InitDetail /\ [][NextDetail]_vars

-----------------------------------------------------------------------------
(* Specification of the analysis step: the store and the component from the *)
(* upload page on                                                           *)

InitUi ==
    /\ uCurrentStep = "upload"
    /\ uSowContent = ""
    /\ uAnalysis = ""
    /\ uIsAnalyzing = FALSE
    /\ uIsSearching = FALSE
    /\ uSearchResults = ""
    /\ uError = ""
    /\ uLocalError = ""
    /\ uHasAttemptedAnalysis = FALSE
    /\ uSearchesInFlight = <<>>
    /\ uRequests = <<>>
    /\ uFailed = FALSE
    /\ QueryParked
    /\ SearchParked
    /\ DetailParked
    /\ CleanParked
    /\ ViewParked

NextUi ==
    Submit \/ AutoTrigger \/ AnalyzeOk \/ AnalyzeFail \/ RetryClick
      \/ StartOver \/ SearchClick \/ SearchOk \/ SearchFail

SpecUi == InitUi /\ [][NextUi]_vars

-----------------------------------------------------------------------------
(* Specification of cleanText: one call on a text *)

InitClean ==
    /\ cText \in TextsUpTo(MaxPieces)
    /\ cDone = FALSE
    /\ cClean = ""
    /\ QueryParked
    /\ SearchParked
    /\ DetailParked
    /\ UiParked
    /\ ViewParked

NextClean == Clean

SpecClean == InitClean /\ [][NextClean]_vars

-----------------------------------------------------------------------------
(* Specification of the results list and the detail view: from the results *)
(* of a search on                                                          *)

InitView ==
    /\ vCurrentStep = "results"
    /\ vSearchResults \in SUBSET ResultNames
    /\ vSelectedRepo = NoSelected
    /\ vIsLoadingDetail = FALSE
    /\ vError = ""
    /\ vEffectDue = FALSE
    /\ vMount = 0
    /\ vSelections = 0
    /\ vDetailInFlight = <<>>
    /\ vDetailRequests = <<>>
    /\ QueryParked
    /\ SearchParked
    /\ DetailParked
    /\ UiParked
    /\ CleanParked

NextView ==
    handleRepoClick \/ AutoFetch \/ DetailOk \/ DetailFail \/ handleBack
      \/ resetFromResults

SpecView == InitView /\ [][NextView]_vars

-----------------------------------------------------------------------------
(* Vocabulary of the properties *)

\* the number of keyword terms of a query: its words between spaces
countTerms(query) == Len(SelectSeq(split(query), LAMBDA w : w # ""))

\* an external call of the search request is in flight, or the request is
\* still to be taken up
searchInFlight ==
    \/ sPc = "idle"
    \/ sPc = "searching" /\ qi <= Len(searchQueries)
    \/ sPc = "scoring" /\ pending # {}

\* the steps the search request is at most away from its response
searchWorkLeft ==
    CASE sPc = "idle" -> 300
      [] sPc = "searching" -> 200 + Len(searchQueries) - qi
      [] sPc = "scoring" -> 100 + Cardinality(pending)
      [] OTHER -> 0

\* the keyword terms of a query, in order
termsOf(query) == SelectSeq(split(query), LAMBDA w : w # "")

\* the first n lower-cased words longer than 3 characters of a text
firstLongWords(text, n) ==
    LET words == SelectSeq(split(toLowerCase(text)), LAMBDA w : Len(w) > 3)
    IN  SubSeq(words, 1, Min(n, Len(words)))

\* the terms Query 1 is made from, repeats included: 3 of the project type,
\* then 2 of the deliverables
candidateSource ==
    firstLongWords(qAnalysis.projectType, 3)
      \o firstLongWords(join(qAnalysis.deliverables, " "), 2)

\* the indices of the candidates that are to be scored
ToScore == 1..Min(Len(allRepos), 10)

\* the coverage of a repository when the model gives the reply of its prompt
ownCoverage(repo) ==
    analyzeCoverage(repo, sAnalysis, fixedReply(repo, sAnalysis)).value

\* the search request has been answered with success: true
Answered == sPc = "done" /\ sResponse.success

\* the indices whose analyzeCoverage call has returned
Scored == (DOMAIN coverage) \ pending

\* the coverage a result entry carries
coverageOf(entry) ==
    [coveragePercentage |-> entry.coveragePercentage,
     covers |-> entry.covers, gaps |-> entry.gaps]

ResultIds == {sResponse.results[k].id : k \in 1..Len(sResponse.results)}

\* the place of x in a sequence that holds it once
Pos(arr, x) == CHOOSE k \in 1..Len(arr) : arr[k] = x

\* the place of the first x in a sequence that holds it
FirstIndex(arr, x) ==
    CHOOSE k \in 1..Len(arr) :
        arr[k] = x /\ \A m \in 1..(k - 1) : arr[m] # x

RECURSIVE FlatItems(_)
\* the items of all replies, in query order and then within-query order
FlatItems(log) ==
    IF Len(log) = 0 THEN <<>>
    ELSE FlatItems(SubSeq(log, 1, Len(log) - 1)) \o log[Len(log)].items

-----------------------------------------------------------------------------
C2_FallbackOnAnyBadReply ==
    /\ sResponse.status # 500
    /\ \A i \in Scored :
          (\/ modelOut[i].kind # "json"
           \/ ~modelOut[i].hasPct
           \/ ~modelOut[i].hasCovers
           \/ ~modelOut[i].hasGaps) => coverage[i] = FALLBACK

(* C2 as amended: a model call that throws or returns text that does not    *)
(* parse to a JSON value other than null makes analyzeCoverage return the   *)
(* fallback value; a JSON reply that lacks fields is not a failure, its     *)
(* missing coveragePercentage becomes 0 and its missing covers or gaps the  *)
(* empty list; analyzeCoverage never raises.                                *)
C2_FallbackOnThrowOrNonJson ==
    /\ sResponse.status # 500
    /\ \A i \in Scored :
          /\ modelOut[i].kind # "json" => coverage[i] = FALLBACK
          /\ modelOut[i].kind = "json" =>
                /\ coverage[i].coveragePercentage =
                      (IF modelOut[i].hasPct THEN modelOut[i].pct ELSE 0)
                /\ coverage[i].covers =
                      (IF modelOut[i].hasCovers THEN modelOut[i].covers ELSE <<>>)
                /\ coverage[i].gaps =
                      (IF modelOut[i].hasGaps THEN modelOut[i].gaps ELSE <<>>)

\* one call fell back on text that is not JSON, another returned the fields
\* of a JSON reply without covers
C2_Witness ==
    /\ \E i \in Scored : modelOut[i].kind = "notjson" /\ coverage[i] = FALLBACK
    /\ \E i \in Scored : modelOut[i].kind = "json" /\ ~modelOut[i].hasCovers

(* C3: the returned results are non-increasing in coveragePercentage, and   *)
(* results with equal coveragePercentage keep the order they had in the     *)
(* de-duplicated candidate list.                                            *)
C3_SortedStable ==
    Answered =>
        \A i, j \in 1..Len(sResponse.results) :
            i < j =>
              /\ sResponse.results[i].coveragePercentage
                    >= sResponse.results[j].coveragePercentage
              /\ sResponse.results[i].coveragePercentage
                    = sResponse.results[j].coveragePercentage
                 => Pos(allRepos, sResponse.results[i].id)
                       < Pos(allRepos, sResponse.results[j].id)

\* three results: two of equal coverage, and one that the sort moved ahead
\* of a candidate found before it
C3_Witness ==
    /\ Answered
    /\ Len(sResponse.results) = 3
    /\ \E i, j \in 1..3 :
          /\ i < j
          /\ sResponse.results[i].coveragePercentage
                = sResponse.results[j].coveragePercentage
    /\ \E i, j \in 1..3 :
          /\ i < j
          /\ Pos(allRepos, sResponse.results[i].id)
                > Pos(allRepos, sResponse.results[j].id)

(* C4: searchGitHub issues the search of every query, whichever of them     *)
(* fail; a failed query contributes nothing, the candidates of the          *)
(* successful ones are all collected, and the call returns normally.        *)
C4_FailedQueryIsolated ==
    /\ sPc = "searching" => (qi = Len(searchLog) + 1 /\ qi <= Len(searchQueries))
    /\ sPc = "returned" =>
          /\ Len(searchLog) = Len(searchQueries)
          /\ Range(allRepos) =
                UNION {Range(searchLog[k].items) :
                         k \in {m \in 1..Len(searchLog) : ~searchLog[m].failed}}

\* three searches were issued: the first failed, the later ones returned
\* candidates
C4_Witness ==
    /\ sPc = "returned"
    /\ Len(searchLog) = 3
    /\ searchLog[1].failed
    /\ ~searchLog[2].failed /\ Len(searchLog[2].items) > 0
    /\ ~searchLog[3].failed /\ Len(searchLog[3].items) > 0
    /\ Len(allRepos) > 1

(* C5: the merged candidate list holds every repository id once, at the     *)
(* place of its first occurrence in query order and then within-query       *)
(* order; every result of query 1 precedes every result first seen later.   *)
C5_FirstSeenOrder ==
    LET flat == FlatItems(searchLog)
    IN  /\ \A i, j \in 1..Len(allRepos) : i # j => allRepos[i] # allRepos[j]
        /\ Range(allRepos) = Range(flat)
        /\ \A i, j \in 1..Len(allRepos) :
              i < j => FirstIndex(flat, allRepos[i]) < FirstIndex(flat, allRepos[j])
        /\ Len(searchLog) > 0 =>
              \A i, j \in 1..Len(allRepos) :
                  (/\ allRepos[i] \in Range(searchLog[1].items)
                   /\ allRepos[j] \notin Range(searchLog[1].items)) => i < j

\* the second query returned a new repository and then one the first query
\* had returned
C5_Witness ==
    /\ sPc = "returned"
    /\ Len(searchLog) >= 2
    /\ Len(searchLog[1].items) > 0
    /\ Len(searchLog[2].items) = 2
    /\ searchLog[2].items[1] \notin Range(searchLog[1].items)
    /\ searchLog[2].items[2] \in Range(searchLog[1].items)
    /\ Len(allRepos) = Len(searchLog[1].items) + 1

-----------------------------------------------------------------------------
(* C6: buildSearchQueries returns at most 3 queries, and exactly 1 query    *)
(* when technicalRequirements and integrations are both empty.              *)
C6_QueryBound ==
    qDoneA =>
        /\ Len(qOutA) >= 1
        /\ Len(qOutA) <= 3
        /\ (Len(qAnalysis.technicalRequirements) = 0
              /\ Len(qAnalysis.integrations) = 0) => Len(qOutA) = 1

\* a call has returned 3 queries for a profile with two technical requirements
C6_Witness ==
    /\ qDoneA
    /\ Len(qOutA) = 3
    /\ Len(qAnalysis.technicalRequirements) = 2
    /\ Len(qAnalysis.integrations) > 0

C8_HealthThresholds ==
    healthStatus # "none" =>
        /\ daysSinceUpdate <= 90 => healthStatus = "active"
        /\ (daysSinceUpdate > 90 /\ daysSinceUpdate <= 365)
              => healthStatus = "stale"
        /\ daysSinceUpdate > 365 => healthStatus = "abandoned"
        /\ dResponse.success => dResponse.detail.healthStatus = healthStatus

\* a detail was returned as stale for a repository updated 91 days and 23
\* hours before
C8_Witness ==
    /\ dPc = "done"
    /\ dResponse.success
    /\ Now - repoData.updated_at = 91 * HoursPerDay + 23
    /\ daysSinceUpdate = 91
    /\ dResponse.detail.healthStatus = "stale"

(* C9: the healthStatus of a returned detail is the health of the days      *)
(* elapsed since its lastCommit, the last-push timestamp.                   *)
C9_HealthFromLastCommit ==
    dResponse.success =>
        dResponse.detail.healthStatus
           = healthOf((Now - dResponse.detail.lastCommit) \div HoursPerDay)

(* C10: when the README fetch fails and the metadata and contributor        *)
(* fetches succeed, generateDetailedAnalysis is given the text              *)
(* 'README not available' and the request is answered with a detail.        *)
C10_ReadmeBestEffort ==
    (/\ readmeFailed
     /\ dFetch["repo"] = "ok"
     /\ dFetch["contributors"] = "ok") =>
        /\ dPc \in {"analyzing", "done"}
        /\ readmeUsed = "README not available"
        /\ dPc = "done" => (dResponse.success /\ dResponse.status = 200)

\* a detail was returned after the README fetch had failed
C10_Witness ==
    /\ dPc = "done"
    /\ readmeFailed
    /\ dResponse.success
    /\ readmeUsed = "README not available"
    /\ dResponse.detail.readmeSummary = "Books appointments."

(* C11: a README of any length n reaches generateDetailedAnalysis as its    *)
(* first min(n, 3000) characters, and its length fails no fetch.            *)
C11_ReadmeExcerpt ==
    (/\ ~readmeFailed
     /\ dFetch["readme"] \notin {"none", "pending"}) =>
        /\ dFetch["readme"] = "ok"
        /\ Len(readmeData) = Min(Len(readmeContent), 3000)
        /\ readmeData \o SubSeq(readmeContent, Len(readmeData) + 1,
                                Len(readmeContent)) = readmeContent
        /\ (\A g \in Fetches : dFetch[g] = "ok") => readmeUsed = readmeData

\* a detail was returned for a repository whose README has 10000 characters
C11_Witness ==
    /\ dPc = "done"
    /\ dResponse.success
    /\ Len(readmeContent) = 10000
    /\ Len(readmeUsed) = 3000
    /\ detailOut.kind = "json"

(* C12: when the model call of generateDetailedAnalysis throws or returns   *)
(* text that does not parse, the request is still answered with success,    *)
(* and its detail carries the fixed fallback: one generic covers item, one  *)
(* generic gaps item, timeSaved 'Unable to estimate' and one generic risk.  *)
C12_DetailFallback ==
    (dPc = "done" /\ detailOut.kind \in {"throws", "notjson", "null"}) =>
        /\ dResponse.success
        /\ dResponse.status = 200
        /\ dResponse.detail.readmeSummary = "Analysis unavailable"
        /\ dResponse.detail.fitAnalysis.covers = <<"Repository features detected">>
        /\ dResponse.detail.fitAnalysis.gaps = <<"Detailed analysis unavailable">>
        /\ dResponse.detail.fitAnalysis.timeSaved = "Unable to estimate"
        /\ dResponse.detail.fitAnalysis.risks = <<"Analysis incomplete">>

\* a detail was returned with the fallback after the model had answered with
\* text that is not JSON, the three fetches having succeeded
C12_Witness ==
    /\ dPc = "done"
    /\ detailOut.kind = "notjson"
    /\ \A g \in Fetches : dFetch[g] = "ok"
    /\ ~readmeFailed
    /\ dResponse.success
    /\ dResponse.detail.fitAnalysis.timeSaved = "Unable to estimate"
    /\ dResponse.detail.contributors = 3

(* C13: when the metadata fetch or the contributor fetch fails, the request *)
(* is answered with status 500 and no detail, and the model is not called.  *)
C13_FetchFailureIsHard ==
    (dFetch["repo"] = "failed" \/ dFetch["contributors"] = "failed") =>
        /\ dPc = "done"
        /\ dResponse.status = 500
        /\ ~dResponse.success
        /\ dResponse.detail = NoDetail
        /\ detailOut = NoDetailReply

\* the contributor fetch failed after the two other fetches had succeeded,
\* and the request was answered with 500
C13_Witness ==
    /\ dPc = "done"
    /\ dFetch["contributors"] = "failed"
    /\ dFetch["repo"] = "ok"
    /\ dFetch["readme"] = "ok"
    /\ dResponse.status = 500

(* C14: a search request or a detail request without a RequirementProfile   *)
(* is answered with an error before any external call is made.              *)
C14_MissingProfileRejected ==
    /\ (sPc \in {"searching", "scoring", "returned", "done"} /\ ~sHasAnalysis) =>
          /\ sPc = "done"
          /\ ~sResponse.success
          /\ searchLog = <<>>
          /\ modelOut = <<>>
    /\ (dPc \in {"fetching", "analyzing", "done"} /\ ~dHasAnalysis) =>
          /\ dPc = "done"
          /\ ~dResponse.success
          /\ \A g \in Fetches : dFetch[g] = "none"

(* C15: a search that completes is answered with success; its result is     *)
(* empty when the searches found no candidate and when every scored         *)
(* candidate was filtered out; an empty result carries a non-empty message  *)
(* and a non-empty result carries none.                                     *)
C15_EmptyResultIsSuccess ==
    (sPc = "done" /\ sHasAnalysis) =>
        /\ sResponse.success
        /\ sResponse.status = 200
        /\ Len(allRepos) = 0 => Len(sResponse.results) = 0
        /\ (\A i \in Scored : ~isRelevant(coverage[i]))
              => Len(sResponse.results) = 0
        /\ Len(sResponse.results) = 0 <=> sResponse.message # ""

\* every candidate was scored and filtered out, and the search was answered
\* with success, no result and a message
C15_Witness ==
    /\ Answered
    /\ Len(allRepos) = 2
    /\ Scored = {1, 2}
    /\ sResponse.results = <<>>
    /\ sResponse.message # ""

(* C16: every repository of a returned search result has a                  *)
(* coveragePercentage between 0 and 100, whatever the model returned.       *)
C16_CoverageInRange ==
    Answered =>
        \A k \in 1..Len(sResponse.results) :
            sResponse.results[k].coveragePercentage \in 0..100

C17_TwoToFiveTerms ==
    qDoneA =>
        \A k \in 1..Len(qOutA) :
            countTerms(qOutA[k]) >= 2 /\ countTerms(qOutA[k]) <= 5

(* C17 as amended: the first query combines at most 5 keyword terms and     *)
(* may have one or none; each further query is one term followed by all     *)
(* the words of the first technical requirement or of the first             *)
(* integration, however many those are.                                     *)
C17_TermCounts ==
    qDoneA =>
        /\ countTerms(qOutA[1]) <= 5
        /\ Len(qAnalysis.technicalRequirements) > 0 =>
              countTerms(qOutA[2])
                 = 1 + countTerms(qAnalysis.technicalRequirements[1])
        /\ Len(qAnalysis.integrations) > 0 =>
              countTerms(qOutA[Len(qOutA)])
                 = 1 + countTerms(qAnalysis.integrations[1])

\* a call has returned an empty first query and a second query of 4 terms
C17_Witness ==
    /\ qDoneA
    /\ Len(qAnalysis.deliverables) > 0
    /\ Len(qOutA) >= 2
    /\ qOutA[1] = ""
    /\ countTerms(qOutA[2]) = 4

(* C18: no analysis request is started automatically after an analysis      *)
(* request of the same SOW has failed; after a failure only the click on    *)
(* Retry starts one.                                                        *)
C18_NoAutomaticRetry ==
    \A k \in 1..Len(uRequests) :
        uRequests[k].afterFailure => uRequests[k].origin = "retry"

(* C20: the text cleanText returns has no run of more than 2 blank lines,   *)
(* that is no 4 newlines in a row, and no line that ends with white space.  *)
C20_NoBlankRunNoTrailingSpace ==
    cDone =>
        /\ \A i \in 1..(Len(cClean) - 3) :
              SubSeq(cClean, i, i + 3) # "\n\n\n\n"
        /\ \A i \in 1..Len(cClean) :
              SubSeq(cClean, i, i) \in {" ", "\t"} =>
                 (i < Len(cClean) /\ SubSeq(cClean, i + 1, i + 1) # "\n")

(* C21: until it is answered a search request has no response and always    *)
(* has an external call in flight, and the end of every call brings it      *)
(* nearer to its answer, so that it is answered once every call has ended;  *)
(* the answer is either a success with results or one error, and nothing    *)
(* follows it.                                                              *)
C21_ExactlyOneResponse ==
    /\ [](sPc # "done" => (sResponse = NoResponse /\ searchInFlight))
    /\ [](sPc = "done" =>
            \/ /\ sResponse.success
               /\ sResponse.status = 200
               /\ sResponse.error = ""
            \/ /\ ~sResponse.success
               /\ sResponse.status \in {400, 500}
               /\ sResponse.error # ""
               /\ sResponse.results = <<>>)
    /\ [][sPc # "done" /\ searchWorkLeft' < searchWorkLeft]_vars

\* a request was answered with results although one search and one model
\* call had failed
C21_Witness ==
    /\ Answered
    /\ \E k \in 1..Len(searchLog) : searchLog[k].failed
    /\ \E i \in Scored : modelOut[i].kind = "throws"
    /\ Len(sResponse.results) = 1

(* C22: Query 1 is the space-joined candidate-term set: its terms are the   *)
(* first 3 long words of projectType and the first 2 of the deliverables,   *)
(* each once, in the order of their first appearance; it has at most 5      *)
(* terms and none twice.                                                    *)
C22_QueryOneIsCandidateSet ==
    qDoneA =>
        LET terms == termsOf(qOutA[1])
        IN  /\ qOutA[1] = join(terms, " ")
            /\ Len(terms) <= 5
            /\ \A a, b \in 1..Len(terms) : a # b => terms[a] # terms[b]
            /\ Range(terms) = Range(candidateSource)
            /\ \A a, b \in 1..Len(terms) :
                  a < b => FirstIndex(candidateSource, terms[a])
                             < FirstIndex(candidateSource, terms[b])

\* a call has returned a first query in which a term that comes twice in
\* the project type and once more in the deliverables stands once
C22_Witness ==
    /\ qDoneA
    /\ qAnalysis.projectType = "Booking booking Platform for salons"
    /\ qAnalysis.deliverables = <<"SMS reminders", "Booking UI">>
    /\ qOutA[1] = "booking platform reminders"

(* C23: Query 2 is the first candidate term followed by the first           *)
(* technical requirement, Query 3 (the last query when there is an          *)
(* integration) the first candidate term followed by the first integration; *)
(* that first term is a member of the candidate-term set for every profile. *)
C23_FirstTermIsCandidate ==
    qDoneA =>
        /\ Len(qAnalysis.technicalRequirements) > 0 =>
              /\ Len(candidateSource) > 0
              /\ qOutA[2] = candidateSource[1] \o " "
                              \o qAnalysis.technicalRequirements[1]
        /\ Len(qAnalysis.integrations) > 0 =>
              /\ Len(candidateSource) > 0
              /\ qOutA[Len(qOutA)] = candidateSource[1] \o " "
                                       \o qAnalysis.integrations[1]

(* C24: of n candidates the first min(n, 10), in the order of the list, get *)
(* one analyzeCoverage call each and no other candidate gets one; a call    *)
(* that has returned does not return again; the results are at most 10,     *)
(* each one a scored candidate, none twice.                                 *)
C24_ScoredOnceAndCapped ==
    /\ [](sPc \in {"scoring", "done"} =>
            /\ DOMAIN modelOut = ToScore
            /\ \A i \in ToScore : i \in pending <=> modelOut[i] = NoReply
            /\ Len(sResponse.results) <= 10
            /\ ResultIds \subseteq {allRepos[i] : i \in ToScore}
            /\ Cardinality(ResultIds) = Len(sResponse.results))
    /\ [][\A i \in DOMAIN modelOut :
             i \notin pending => (i \notin pending' /\ modelOut'[i] = modelOut[i])
         ]_vars

\* of 12 candidates 10 were scored and returned
C24_Witness ==
    /\ Answered
    /\ Len(allRepos) = 12
    /\ Len(modelOut) = 10
    /\ ResultIds = 1..10

(* C25: the calls are all launched in one step, before any of them has      *)
(* ended; while one of them is pending there is no response; the response   *)
(* comes with the end of the last one.                                      *)
C25_FanOutThenJoin ==
    /\ [](pending # {} => (sPc = "scoring" /\ sResponse = NoResponse))
    /\ []((sPc = "done" /\ Len(allRepos) > 0) =>
             \A i \in ToScore : modelOut[i] # NoReply /\ coverage[i] # NotScored)
    /\ [][sPc = "returned" =>
             (pending' = ToScore /\ \A i \in ToScore : modelOut'[i] = NoReply)
         ]_vars

\* the call launched last of 10 ended first, and the response came after
\* all 10 had ended
C25_Witness ==
    /\ sPc = "done"
    /\ Len(modelOut) = 10
    /\ firstSettled = 10
    /\ pending = {}
    /\ \A i \in 1..10 : modelOut[i] # NoReply

(* C26: with the reply of each prompt fixed, the response is the same       *)
(* whatever the order in which the calls end: every result carries the      *)
(* coverage of its own repository, the results are the candidates whose own *)
(* coverage is relevant, by falling percentage and, at equal percentage, in *)
(* the order of the candidates.                                             *)
C26_OrderIndependent ==
    Answered =>
        /\ \A k \in 1..Len(sResponse.results) :
              coverageOf(sResponse.results[k])
                 = ownCoverage(sResponse.results[k].id)
        /\ ResultIds = {allRepos[i] : i \in
                          {j \in ToScore : isRelevant(ownCoverage(allRepos[j]))}}
        /\ Len(sResponse.results) = Cardinality(ResultIds)
        /\ \A a, b \in 1..Len(sResponse.results) :
              a < b =>
                 \/ sResponse.results[a].coveragePercentage
                       > sResponse.results[b].coveragePercentage
                 \/ /\ sResponse.results[a].coveragePercentage
                          = sResponse.results[b].coveragePercentage
                    /\ Pos(allRepos, sResponse.results[a].id)
                          < Pos(allRepos, sResponse.results[b].id)

\* the call of the fourth of 4 candidates ended first and fell back; the
\* three others were returned in the order of their own percentages
C26_Witness ==
    /\ Answered
    /\ Len(allRepos) = 4
    /\ firstSettled = 4
    /\ modelOut[4].kind = "throws"
    /\ Len(sResponse.results) = 3
    /\ sResponse.results[1].id = 2
    /\ sResponse.results[2].id = 1
    /\ sResponse.results[3].id = 3

(* C27: the auto-trigger never starts two requests in a row after a         *)
(* failure: an automatic request that follows a failure follows a click on  *)
(* Retry, and when it has failed too the step shows the error and nothing   *)
(* is due until the user acts.                                              *)
C27_NoRetryLoop ==
    /\ \A k \in 2..Len(uRequests) :
          (uRequests[k].origin = "auto" /\ uRequests[k].afterFailure)
             => uRequests[k - 1].origin = "retry"
    /\ (/\ Mounted
        /\ uFailed
        /\ uAnalysis = ""
        /\ ~uIsAnalyzing
        /\ uRequests[Len(uRequests)].origin = "auto")
          => (uLocalError # "" /\ ~effectDue)

\* the automatic request that followed a failed retry has failed, and the
\* step rests on its error screen
C27_Witness ==
    /\ Len(uRequests) = 3
    /\ uRequests[2].origin = "retry"
    /\ uRequests[3].origin = "auto"
    /\ uRequests[3].afterFailure
    /\ ~uIsAnalyzing
    /\ uLocalError # ""
    /\ ~effectDue

(* C28: after reset the store stays in its initial state until a SOW is     *)
(* submitted, whatever search response arrives, and the results in the      *)
(* store are those of the SOW in the store.                                 *)
C28_ResetDiscardsSearch ==
    /\ uSowContent = "" => (uCurrentStep = "upload" /\ uSearchResults = "")
    /\ uSearchResults # "" => uSearchResults = "results for " \o uSowContent

(* C29: from the click on a repository until its detail request has been   *)
(* handled isLoadingDetail is true: neither before the request starts nor  *)
(* while it is in flight does the detail view show the placeholder of the   *)
(* click as a loaded detail.                                                *)
C29_LoadingUntilHandled ==
    /\ (DetailMounted /\ vEffectDue /\ fetchDue) => vIsLoadingDetail
    /\ \A k \in DOMAIN vDetailInFlight :
          (/\ DetailMounted
           /\ vDetailInFlight[k].selection = vSelections
           /\ vSelectedRepo = placeholderDetail(vDetailInFlight[k].name))
             => vIsLoadingDetail

(* C30: no click starts more than one detail request: a stored response     *)
(* has a non-empty readmeSummary, so the effect that follows it starts      *)
(* nothing, and nothing follows a failure.                                  *)
C30_OneFetchPerSelection ==
    /\ \A j, k \in DOMAIN vDetailRequests :
          j # k => vDetailRequests[j].selection # vDetailRequests[k].selection
    /\ Len(vDetailRequests) <= vSelections
    /\ vSelectedRepo.fetched => vSelectedRepo.readmeSummary # ""

\* two clicks, two requests: one has failed, the other has stored the
\* fallback of the model call, and the effect that followed started nothing
C30_Witness ==
    /\ vSelections = 2
    /\ Len(vDetailRequests) = 2
    /\ vDetailInFlight = <<>>
    /\ ~vEffectDue
    /\ vError # ""
    /\ vSelectedRepo.fetched
    /\ vSelectedRepo.readmeSummary = "Analysis unavailable"

====
